---- MODULE Spec2Model ----
(***************************************************************************)
(* Goal-replay link resolution of golazo (package reddit): Client.GoalLink,*)
(* Client.GoalLinks, Client.searchForGoal, Client.searchForGoalOnce and    *)
(* Client.ClearCache over a GoalLinkCache and a Fetcher.                   *)
(*                                                                         *)
(* One caller drives the client: an operation runs to its return before    *)
(* the next one starts.  A call that has to search is split at the points  *)
(* where the code blocks on the fetcher (one step for the call of          *)
(* Fetcher.Search and one for its return); pc holds the position of the    *)
(* caller.  A call ends in pc = "returned", where its results can be read; *)
(* the caller then takes them and is free to make the next call.           *)
(*                                                                         *)
(* PublicJSONFetcher.Search and its rateLimiter are modelled on their own, *)
(* with two concurrent callers of Search and a clock: NextFetcher.         *)
(***************************************************************************)
EXTENDS Integers, Sequences, FiniteSets, TLC

VARIABLES
    fetcher,        \* Client.fetcher: the Fetcher implementation injected at construction
    workload,       \* which input lists the caller passes to GoalLinks
    cache,          \* Client.cache: GoalLinkKey -> *GoalLink (NilLink: no record)
    pc,             \* "idle" | "search" (top of the loop of searchForGoal) | "inQuery1" | "afterQuery1"
                    \* | "inQuery2" (inside searchForGoalOnce) | "batch" (inside GoalLinks' batch loop) | "returned"
    op,             \* the running or just returned top-level call
    prev,           \* the goal of the call before op, if that was a GoalLink call
    uncachedGoals,  \* GoalLinks: local uncachedGoals
    i,              \* GoalLinks: outer loop variable (start of the batch, 0-based)
    j,              \* GoalLinks: position of the next goal of uncachedGoals (0-based)
    results,        \* GoalLinks: local results, the returned map
    cur,            \* GoalLink: parameter goal of the running GoalLink
    attempt,        \* searchForGoal: loop variable attempt
    results1,       \* searchForGoalOnce: locals results1, err (the answer to query1)
    inflight,       \* the calls of Fetcher.Search that have not returned
    link,           \* GoalLink (top-level): returned *GoalLink
    err,            \* GoalLink (top-level): returned error
    trace,          \* what the running/last top-level call did: GoalLink calls, fetcher calls, sleeps
    store,          \* the durable storage behind Client.cache: "sound" | "flaky"
    writeErr,       \* GoalLink: the error of cache.Set / cache.SetNotFound it discarded was not nil
    mu,             \* rateLimiter.mu: the caller holding it, or Unlocked
    sinceLastRequest,   \* time.Since(rateLimiter.lastRequest), seconds, saturated at AgeCap
    sinceLastCaptcha,   \* time.Since(rateLimiter.lastCaptchaTime), seconds, saturated at captchaWindow
    captchaCount,   \* rateLimiter.captchaCount
    at,             \* per caller of PublicJSONFetcher.Search: its position
    currentInterval,    \* per caller: wait's local currentInterval (0 outside wait)
    resp,           \* per caller: the HTTP response of httpClient.Do
    ret,            \* per caller: what Search returns
    recorded,       \* per caller: the calls of recordCaptchaError in this Search call
    waits,          \* per caller: the calls of rateLimiter.wait in this Search call
    requests,       \* per caller: the calls of httpClient.Do in this Search call
    racers,         \* per goroutine calling Client.GoalLink concurrently: its call
    searched,       \* per identity: the searchForGoal calls begun by those goroutines
    written,        \* per identity: the cache writes made by those goroutines
    stats,          \* fotmob Client.FetchStatsData: its position and locals
    answers,        \* what MatchesByDateWithTabs was asked and answered in the running call, per day
    statsRet,       \* what FetchStatsData returned
    currentView,    \* app model.currentView
    matches,        \* app model.matches: the IDs of the matches displayed
    selected,       \* app model.selected
    matchDetails,   \* app model.matchDetails: the ID of the match, 0 for nil
    liveUpdates,    \* app model.liveUpdates, each update with the generator that produced it
    loading,        \* app model.loading
    updateGen,      \* app model.updateGen: the number of the generator, 0 for nil
    gens,           \* the LiveUpdateGenerators created so far, by number
    ticks,          \* per generator: the tea.Tick commands of fetchLiveUpdate that have not fired
    msgs            \* the liveUpdateMsg messages sent to the program and not handled yet

clientVars == <<fetcher, workload, cache, pc, op, prev, uncachedGoals, i, j, results, cur,
                attempt, results1, inflight, link, err, trace, store, writeErr>>

fetcherVars == <<mu, sinceLastRequest, sinceLastCaptcha, captchaCount, at, currentInterval,
                 resp, ret, recorded, waits, requests>>

raceVars == <<racers, searched, written>>

statsVars == <<stats, answers, statsRet>>

appVars == <<currentView, matches, selected, matchDetails, liveUpdates, loading, updateGen,
             gens, ticks, msgs>>

\* What the steps of the client, of the fetcher, of the concurrent callers,
\* of FetchStatsData and of the app leave alone.
notClient == <<fetcherVars, raceVars, statsVars, appVars>>
notFetcher == <<clientVars, raceVars, statsVars, appVars>>
notRace == <<fetcher, workload, pc, op, prev, uncachedGoals, i, j, results, cur, attempt,
             results1, inflight, link, err, trace, store, writeErr, fetcherVars, statsVars,
             appVars>>
notStats == <<clientVars, fetcherVars, raceVars, appVars>>
notApp == <<clientVars, fetcherVars, raceVars, statsVars>>

vars == <<clientVars, fetcherVars, raceVars, statsVars, appVars>>

----------------------------------------------------------------------------
(* Bounds of the model *)

\* longest input list of GoalLinks in the short workload
MaxLen == 3
\* number of distinct identities of the long workload
BigN == 12

\* calls of loadMatchDetails in one run of the app
MaxLoads == 3

\* updates a LiveUpdateGenerator holds
MaxUpdates == 2

\* soft blocks recorded in one run
MaxCaptchaCount == 2

(* Program constants *)

BatchSize == 5
\* seconds
BatchDelay == 2
maxRetries == 3
\* seconds
baseDelay == 30
\* NewPublicJSONFetcher: newRateLimiter(10)
requestsPerMinute == 10
\* newRateLimiter: time.Minute / requestsPerMinute, seconds
minInterval == 60 \div requestsPerMinute
\* wait: 10 * time.Minute, seconds
captchaWindow == 600

----------------------------------------------------------------------------
(* Data *)

GoalLinkKey(goal) == [MatchID |-> goal.MatchID, Minute |-> goal.Minute]

\* The n-th goal of the universe; distinct n give distinct identities.
GoalAt(n) ==
    [MatchID |-> (n + 1) \div 2,
     Minute |-> IF n % 2 = 1 THEN 10 ELSE 20,
     IsHomeTeam |-> TRUE]

Universe == 1..BigN
Keys == {GoalLinkKey(GoalAt(n)) : n \in Universe}

\* The goals of single GoalLink calls and of the short lists: two identities
\* of one match, and a second GoalInfo of the first identity that differs in
\* its other fields.
ShortGoals ==
    {GoalAt(1), GoalAt(2), [GoalAt(1) EXCEPT !.IsHomeTeam = FALSE]}

NoGoal == [MatchID |-> 0, Minute |-> 0, IsHomeTeam |-> FALSE]

\* A nil *GoalLink.
NilLink == [MatchID |-> 0, Minute |-> 0, URL |-> "<nil>", Title |-> "", PostURL |-> ""]

notFoundMarker == "__NOT_FOUND__"

IsNotFound(l) == l # NilLink /\ l.URL = notFoundMarker

\* Posts the search may return.  Score stands for the scorer's combined score
\* of the post for the goal searched.
Post(u, s, t) == [URL |-> u, Title |-> "t-" \o u, PostURL |-> "p-" \o u, Score |-> s, CreatedAt |-> t]
P0 == Post("u0", 0, 1)
P1 == Post("u1", 2, 2)
P2 == Post("u2", 1, 3)
NoPost == Post("<nil>", 0, 0)
\* The post of P0 again, as a later search returns it: same URL, other fields.
P0b == [P0 EXCEPT !.Title = "t-u0-edited", !.CreatedAt = 4]

MinScore == 1

\* Text (a response body, the message of an error) is a sequence of
\* fragments; every phrase the code looks for is a fragment of its own.
\* strings.Contains:
Contains(text, phrase) == \E n \in DOMAIN text : text[n] = phrase

\* strings.ToLower, on the fragments that hold capitals.
ToLower(text) ==
    [n \in DOMAIN text |->
        CASE text[n] = "CAPTCHA" -> "captcha"
          [] text[n] = "Robot" -> "robot"
          [] text[n] = "Too Many Requests" -> "too many requests"
          [] OTHER -> text[n]]

\* Errors of Fetcher.Search, by their message; a nil error has none.
NoErr == <<>>
\* Line 386.
ErrCaptcha == <<"reddit is ", "blocking requests", " (", "CAPTCHA", "/bot detection)">>
\* Line 393.
ErrHTML ==
    <<"reddit returned HTML instead of JSON (likely ", "CAPTCHA", " or ", "rate limit", ")">>
\* Line 374: fmt.Errorf("reddit API error: status %d, body: %s", ...).
statusError(code, body) ==
    <<"reddit API error: status ", ToString(code), ", body: ">> \o body
\* Line 395, with the message of json.Unmarshal.
ErrParse == <<"parse response: ", "invalid character 'x' looking for beginning of value">>
\* Line 368, with the message of httpClient.Do.
ErrFetch == <<"fetch from reddit: ", "context deadline exceeded">>
ErrStatus == statusError(500, <<>>)

Ok(rs) == [err |-> NoErr, results |-> rs]
Fail(e) == [err |-> e, results |-> <<>>]

Resp == {Fail(ErrCaptcha), Fail(ErrStatus), Ok(<<P0>>), Ok(<<P2, P1>>), Ok(<<P0b, P2>>)}

\* Fetcher implementations: "any" answers every call with any response; the
\* others are stateless fakes.
Fetchers == {"any", "found", "absent", "blocked", "down", "mixed"}

Search(f, goal, q) ==
    CASE f = "any" -> Resp
      [] f = "found" -> {Ok(<<P1>>)}
      [] f = "absent" -> {Ok(<<P0>>)}
      [] f = "blocked" -> {Fail(ErrCaptcha)}
      [] f = "down" -> {Fail(ErrStatus)}
      [] f = "mixed" ->
            IF goal.MatchID % 3 = 0 THEN {Fail(ErrCaptcha)}
            ELSE IF goal.MatchID % 3 = 1 THEN (IF q = "A" THEN {Ok(<<P0>>)} ELSE {Ok(<<P0, P2>>)})
            ELSE {Ok(<<>>)}

----------------------------------------------------------------------------
(* GoalLinkCache *)

Get(c, key) == c[key]

Set(c, l) == [c EXCEPT ![[MatchID |-> l.MatchID, Minute |-> l.Minute]] = l]

SetNotFound(c, matchID, minute) ==
    Set(c, [MatchID |-> matchID, Minute |-> minute, URL |-> notFoundMarker,
            Title |-> "", PostURL |-> ""])

Clear(c) == [k \in DOMAIN c |-> NilLink]

\* Whether a write (Set, SetNotFound) is saved: always on sound storage,
\* sometimes on flaky storage.  A write that is not saved returns an error
\* and stores nothing.
SaveOutcomes(st) == IF st = "flaky" THEN {TRUE, FALSE} ELSE {TRUE}

----------------------------------------------------------------------------
(* MatchScorer *)

\* TRUE iff post a is preferred to post b: higher score, then more recent.
Better(a, b) ==
    \/ a.Score > b.Score
    \/ a.Score = b.Score /\ a.CreatedAt > b.CreatedAt

findBestMatch(rs, goal) ==
    LET ok == {n \in 1..Len(rs) : rs[n].Score >= MinScore}
    IN IF ok = {} THEN NoPost
       ELSE rs[CHOOSE n \in ok : \A m \in ok : m = n \/ ~Better(rs[m], rs[n])]

----------------------------------------------------------------------------
(* What a call did, for the properties: one record per event. *)

\* GoalLinks looked key up in the cache (line 495).
EvCheck(key) == [e |-> "check", key |-> key, q |-> "", r |-> <<>>, a |-> 0, d |-> 0, rs |-> <<>>]
\* GoalLink was called for key (line 440).
EvCall(key) == [e |-> "call", key |-> key, q |-> "", r |-> <<>>, a |-> 0, d |-> 0, rs |-> <<>>]
\* Fetcher.Search was called for key with query q ("A": query1, "B": query2) in
\* attempt a (0-based) and answered with error r and results rs.
EvSearch(key, q, r, a, rs) ==
    [e |-> "search", key |-> key, q |-> q, r |-> r, a |-> a, d |-> 0, rs |-> rs]
\* GoalLink returned for key: q is "link" or "nil", r the error.
EvReturn(key, l, e) ==
    [e |-> "return", key |-> key, q |-> IF l.URL = "<nil>" THEN "nil" ELSE "link",
     r |-> e, a |-> 0, d |-> 0, rs |-> <<>>]
\* time.Sleep of d seconds.
EvSleep(d) ==
    [e |-> "sleep", key |-> GoalLinkKey(NoGoal), q |-> "", r |-> <<>>, a |-> 0, d |-> d, rs |-> <<>>]

----------------------------------------------------------------------------
(* Client.searchForGoalOnce *)

\* Mutant of uniqueResults: nothing is removed.
uniqueResultsAll(rs) == rs

\* Lines 606-614: keep the first result of every URL, in order.
RECURSIVE uniqueResults(_)
uniqueResults(rs) ==
    IF rs = <<>> THEN <<>>
    ELSE LET init == uniqueResults(SubSeq(rs, 1, Len(rs) - 1))
             r == rs[Len(rs)]
         IN IF \E n \in 1..Len(init) : init[n].URL = r.URL THEN init
            ELSE Append(init, r)

\* Mutant of NewGoalLink: URL and PostURL are swapped.
NewGoalLinkSwapped(goal, match) ==
    [MatchID |-> goal.MatchID, Minute |-> goal.Minute, URL |-> match.PostURL,
     Title |-> match.Title, PostURL |-> match.URL]

NewGoalLink(goal, match) ==
    [MatchID |-> goal.MatchID, Minute |-> goal.Minute, URL |-> match.URL,
     Title |-> match.Title, PostURL |-> match.PostURL]

\* Mutant of returnsAfterQuery1: query2 is issued whatever query1 brought.
returnsAfterQuery1Never(goal, r1) == FALSE

\* Lines 573-574: query1 succeeded and holds a match; the attempt ends there.
returnsAfterQuery1(goal, r1) ==
    r1.err = NoErr /\ findBestMatch(r1.results, goal) # NoPost

\* Lines 587-614: the successful results of query1, then those of query2,
\* without the repeated URLs.
pooled(r1, r2) ==
    uniqueResults((IF r1.err = NoErr THEN r1.results ELSE <<>>)
                  \o (IF r2.err = NoErr THEN r2.results ELSE <<>>))

\* Mutant of searchForGoalOnce: an attempt whose two searches failed returns
\* the error of the second.
searchForGoalOncePropagating(goal, r1, r2) ==
    LET match == findBestMatch(pooled(r1, r2), goal)
    IN IF returnsAfterQuery1(goal, r1)
       THEN [link |-> NewGoalLink(goal, findBestMatch(r1.results, goal)), err |-> NoErr]
       ELSE [link |-> IF match = NoPost THEN NilLink ELSE NewGoalLink(goal, match),
             err |-> IF r1.err # NoErr /\ r2.err # NoErr THEN r2.err ELSE NoErr]

\* One search attempt; r1 and r2 are the fetcher's answers to query1 and to
\* query2 (r2 is used only if query2 is issued).  The result is the returned
\* (link, err).
searchForGoalOnce(goal, r1, r2) ==
    LET match == findBestMatch(pooled(r1, r2), goal)
    IN IF returnsAfterQuery1(goal, r1)
       THEN [link |-> NewGoalLink(goal, findBestMatch(r1.results, goal)), err |-> NoErr]
       ELSE [link |-> IF match = NoPost THEN NilLink ELSE NewGoalLink(goal, match),
             err |-> NoErr]

\* The locals results1, err before query1 has returned.
NoResp == [err |-> <<"<none>">>, results |-> <<>>]

\* Fetcher.Search is a blocking call: it is in flight from the call to the
\* return.
afterCall(fl, key, q) == fl \cup {[key |-> key, q |-> q]}

\* Mutant of afterReturn: the request is still running when the call returns.
afterReturnRunning(fl, key, q) == fl

afterReturn(fl, key, q) == fl \ {[key |-> key, q |-> q]}

----------------------------------------------------------------------------
(* Client.searchForGoal *)

\* Lines 550-552: the errors the loop retries.
isRetryable(e) ==
    \/ Contains(e, "CAPTCHA")
    \/ Contains(e, "blocking requests")
    \/ Contains(e, "rate limit")

\* Line 540.
backoff(n) == n * baseDelay

\* Mutant of loopStep: an attempt without a link is retried, once too often.
loopStepOneMore(n, once) ==
    IF once.link # NilLink THEN "return"
    ELSE IF n < maxRetries THEN "continue"
    ELSE "return"

\* What one iteration of the loop does with the attempt's result:
\* "return" (result, nil), "continue", or "fail" (nil, err).
loopStep(n, once) ==
    IF once.err = NoErr THEN "return"
    ELSE IF isRetryable(once.err) /\ n < maxRetries - 1 THEN "continue"
    ELSE "fail"

----------------------------------------------------------------------------
(* Client.GoalLinks, lines 479-504: de-duplicate and split off the cached goals *)

EmptyMap == [k \in {} |-> NilLink]
Put(m, k, v) == [x \in (DOMAIN m) \cup {k} |-> IF x = k THEN v ELSE m[x]]

\* Mutant of isDuplicate: no goal is skipped as a duplicate.
isDuplicateNever(seen, key) == FALSE

\* Line 489.
isDuplicate(seen, key) == key \in seen

RECURSIVE partition(_, _)
partition(goals, c) ==
    IF goals = <<>>
    THEN [seen |-> {}, results |-> EmptyMap, uncachedGoals |-> <<>>, checks |-> <<>>]
    ELSE LET p == partition(SubSeq(goals, 1, Len(goals) - 1), c)
             goal == goals[Len(goals)]
             key == GoalLinkKey(goal)
             l == Get(c, key)
         IN IF isDuplicate(p.seen, key) THEN p
            ELSE IF l # NilLink
            THEN [p EXCEPT !.seen = @ \cup {key},
                           !.checks = Append(@, EvCheck(key)),
                           !.results = IF ~IsNotFound(l) THEN Put(@, key, l) ELSE @]
            ELSE [p EXCEPT !.seen = @ \cup {key},
                           !.checks = Append(@, EvCheck(key)),
                           !.uncachedGoals = Append(@, goal)]

\* Lines 514-517.
batchEnd(start, n) == IF start + BatchSize > n THEN n ELSE start + BatchSize

\* Mutant of needsDelay: the delay also precedes the first batch.
needsDelayAlways(start) == start >= 0

\* Line 509.
needsDelay(start) == start > 0

\* Mutant of accumulate: the link is stored whatever GoalLink returned.
accumulateAlways(res, key, l, e) == Put(res, key, l)

\* Lines 522-524.
accumulate(res, key, l, e) == IF e = NoErr /\ l # NilLink THEN Put(res, key, l) ELSE res

----------------------------------------------------------------------------
(* The caller's inputs *)

RECURSIVE Distinct(_)
\* The first n goals of the universe.
Distinct(n) == IF n = 0 THEN <<>> ELSE Append(Distinct(n - 1), GoalAt(n))

ShortLists == UNION {[1..n -> ShortGoals] : n \in 0..MaxLen}

\* Every prefix of the universe, one identity repeated, and the whole universe
\* twice over.
LongLists ==
    {Distinct(n) : n \in 0..BigN}
    \cup {[n \in 1..BigN |-> GoalAt(2)], Distinct(BigN) \o Distinct(BigN)}

InputLists == IF workload = "short" THEN ShortLists ELSE LongLists

----------------------------------------------------------------------------
(* rateLimiter *)

\* The goroutines calling PublicJSONFetcher.Search.
Callers == {"c1", "c2"}

Unlocked == "unlocked"

\* wait compares the time since the last request with an interval of at most
\* 2 * minInterval: longer times are all alike to it.
AgeCap == 2 * minInterval

Min(a, b) == IF a < b THEN a ELSE b

\* The clock of the model advances in steps of the baseline interval.
TickStep == minInterval

\* Mutant of intervalFor: every recorded soft block lengthens the interval.
intervalForScaled(count, since) ==
    IF count > 0 /\ since < captchaWindow THEN minInterval * (1 + count) ELSE minInterval

\* wait, lines 306-311: the local currentInterval, from captchaCount and
\* time.Since(lastCaptchaTime).
intervalFor(count, since) ==
    IF count > 0 /\ since < captchaWindow THEN minInterval * 2 ELSE minInterval

\* wait, lines 313-315: the duration passed to time.Sleep (0: no sleep).
sleepFor(elapsed, interval) == IF elapsed < interval THEN interval - elapsed ELSE 0

\* Mutant of canLock: the mutex excludes nobody.
canLockAlways(m) == TRUE

\* sync.Mutex.Lock returns only when the mutex is free.
canLock(m) == m = Unlocked

----------------------------------------------------------------------------
(* PublicJSONFetcher.Search *)

\* A child of the listing json.Unmarshal reads from the body.
Child(u, flair) == [URL |-> u, Flair |-> flair]

\* json.Unmarshal returns an error.
Invalid == <<Child("<invalid>", "")>>

\* What httpClient.Do and io.ReadAll bring: doErr is a transport error, json
\* is what json.Unmarshal makes of the body.
HTTP(doErr, status, body, json) ==
    [doErr |-> doErr, status |-> status, body |-> body, json |-> json]

NoHTTP == HTTP(FALSE, 0, <<>>, Invalid)

Responses ==
    {HTTP(TRUE, 0, <<>>, Invalid),
     HTTP(FALSE, 200, <<"{\"data\":{\"children\":[...]}}">>,
          <<Child("u1", "Media"), Child("u3", "Discussion")>>),
     HTTP(FALSE, 200, <<"{\"data\":{\"children\":[{\"title\":\"", "Robot", " referee\"}]}}">>,
          <<Child("u4", "Media")>>),
     HTTP(FALSE, 200, <<"<html", "><body>", "prove your humanity", "</body></html>">>, Invalid),
     HTTP(FALSE, 200, <<"<html", "><body>Service unavailable</body></html>">>, Invalid),
     HTTP(FALSE, 200, <<"{\"data\": tru">>, Invalid),
     HTTP(FALSE, 200, <<"we are ", "blocking requests", " {">>, Invalid),
     HTTP(FALSE, 429, <<"Too Many Requests", ": ", "rate limit", " exceeded">>, Invalid),
     HTTP(FALSE, 500, <<>>, Invalid)}

\* Lines 644-652.
captchaIndicators ==
    {"prove your humanity", "captcha", "robot", "automated", "blocked", "rate limit",
     "too many requests"}

\* Lines 642-663.
isCaptchaResponse(body) ==
    \E indicator \in captchaIndicators : Contains(ToLower(body), indicator)

\* Line 392.
isHTML(body) == Contains(body, "<html") \/ Contains(body, "<!DOCTYPE html")

\* Lines 398-405: only the posts with the Media flair.
mediaOnly(children) ==
    LET isMedia(c) == c.Flair = "Media"
    IN SelectSeq(children, isMedia)

\* Mutant of searchResult: the body is decoded first, and the indicators are
\* looked for only in a body that is not JSON.
searchResultDecodeFirst(r) ==
    IF r.doErr THEN [err |-> ErrFetch, results |-> <<>>, record |-> FALSE]
    ELSE IF r.status # 200
    THEN [err |-> statusError(r.status, r.body), results |-> <<>>, record |-> FALSE]
    ELSE IF r.json # Invalid
    THEN [err |-> NoErr, results |-> mediaOnly(r.json), record |-> FALSE]
    ELSE IF isCaptchaResponse(r.body)
    THEN [err |-> ErrCaptcha, results |-> <<>>, record |-> TRUE]
    ELSE [err |-> IF isHTML(r.body) THEN ErrHTML ELSE ErrParse, results |-> <<>>,
          record |-> FALSE]

\* Search from the return of httpClient.Do on (lines 366-407): the returned
\* (results, err), and whether recordCaptchaError is called on the way.
searchResult(r) ==
    IF r.doErr THEN [err |-> ErrFetch, results |-> <<>>, record |-> FALSE]
    ELSE IF r.status # 200
    THEN [err |-> statusError(r.status, r.body), results |-> <<>>, record |-> FALSE]
    ELSE IF isCaptchaResponse(r.body)
    THEN [err |-> ErrCaptcha, results |-> <<>>, record |-> TRUE]
    ELSE IF r.json = Invalid
    THEN [err |-> IF isHTML(r.body) THEN ErrHTML ELSE ErrParse, results |-> <<>>,
          record |-> FALSE]
    ELSE [err |-> NoErr, results |-> mediaOnly(r.json), record |-> FALSE]

\* Mutant of afterResponse: Search goes back to the limiter and sends the
\* request again after an error.
afterResponseRetry(res) ==
    IF res.err # NoErr THEN "lock" ELSE "done"

\* Where Search goes on after the response is classified: to
\* recordCaptchaError (line 385) or to its return; never back to the request.
afterResponse(res) == IF res.record THEN "record" ELSE "done"

\* Search has not returned.
NoOut == [err |-> <<"<none>">>, results |-> <<>>]

\* NewPublicJSONFetcher: a limiter that has seen no request and no soft
\* block (zero times: time.Since is beyond every interval), and no caller
\* inside Search.
FreshFetcher ==
    /\ mu = Unlocked
    /\ sinceLastRequest = AgeCap
    /\ sinceLastCaptcha = captchaWindow
    /\ captchaCount = 0
    /\ at = [p \in Callers |-> "idle"]
    /\ currentInterval = [p \in Callers |-> 0]
    /\ resp = [p \in Callers |-> NoHTTP]
    /\ ret = [p \in Callers |-> NoOut]
    /\ recorded = [p \in Callers |-> 0]
    /\ waits = [p \in Callers |-> 0]
    /\ requests = [p \in Callers |-> 0]

----------------------------------------------------------------------------
(* fotmob Client.FetchStatsData *)

\* Line 24.
StatsDataDays == 5

\* api.Match, as far as FetchStatsData reads it: the status; ID tells the
\* matches apart.
Match(id, status) == [ID |-> id, Status |-> status]

\* What MatchesByDateWithTabs returns: (matches, err).
Answer(ms, e) == [matches |-> ms, err |-> e]

ErrDay == <<"fotmob: request failed">>

\* The answers MatchesByDateWithTabs may give for the day that is n days
\* before today: an error (with or without matches read before it), no
\* match, or matches that are finished, not started or live.
DayAnswers(n) ==
    {Answer(<<>>, ErrDay),
     Answer(<<Match(10 * n + 1, "finished")>>, ErrDay),
     Answer(<<>>, NoErr),
     Answer(<<Match(10 * n + 1, "finished"), Match(10 * n + 2, "not_started")>>, NoErr),
     Answer(<<Match(10 * n + 2, "not_started"), Match(10 * n + 3, "live"),
              Match(10 * n + 1, "finished")>>, NoErr)}

\* Lines 52-55: the day fetched in iteration n is today iff n = 0.
isToday(n) == n = 0

\* Lines 59-66: the tabs asked for.
tabsFor(n) == IF isToday(n) THEN <<"fixtures", "results">> ELSE <<"results">>

\* Lines 75-87: the matches of one day that have the status, appended to a
\* list if the condition of the list holds.
appendMatches(list, ms, status, cond) ==
    IF cond THEN list \o SelectSeq(ms, LAMBDA x : x.Status = status) ELSE list

\* Line 53: the date of the day fetched in iteration n, formatted.
dateStr(n) == <<"today", "today-1", "today-2", "today-3", "today-4">>[n + 1]

\* Line 69.
dayError(n, e) == <<"fetch matches for date ", dateStr(n), ": ">> \o e

\* Line 92.
statsError(e) == <<"failed to fetch matches for any date: ">> \o e

\* Mutant of allFailed: one failed day fails the call.
allFailedAny(successCount) == successCount < StatsDataDays

\* Line 91.
allFailed(successCount) == successCount = 0

\* The locals of FetchStatsData.
Locals(where, n, af, tf, tu, e, c) ==
    [at |-> where, i |-> n, allFinished |-> af, todayFinished |-> tf, todayUpcoming |-> tu,
     lastErr |-> e, successCount |-> c]

\* FetchStatsData is not running.
NoStats == Locals("idle", 0, <<>>, <<>>, <<>>, NoErr, 0)

\* nil *StatsData.
NilStats == [AllFinished |-> <<>>, TodayFinished |-> <<>>, TodayUpcoming |-> <<>>, nil |-> TRUE]

\* FetchStatsData has not returned.
NoStatsRet == [data |-> NilStats, err |-> NoErr, returned |-> FALSE]

----------------------------------------------------------------------------
(* app model *)

\* Lines 16-19.
viewMain == "viewMain"
viewLiveMatches == "viewLiveMatches"

\* data.MockMatches: the IDs of the matches it returns.
MockMatchIDs == <<1, 2>>

\* What data.MockMatches returns: the matches, or an error.
MockMatches == {[matches |-> MockMatchIDs, err |-> FALSE], [matches |-> <<>>, err |-> TRUE]}

\* data.NewLiveUpdateGenerator(matchID).
NewLiveUpdateGenerator(matchID) == [match |-> matchID, next |-> 0]

\* LiveUpdateGenerator.HasMore.
HasMore(gen) == gen.next < MaxUpdates

\* The update with the given number of the generator with number g; number
\* 0 is the empty string fetchLiveUpdate sends when the generator has no more.
LiveUpdate(g, n) == [gen |-> g, match |-> gens[g].match, n |-> n]

\* Lines 35-46, and no command of fetchLiveUpdate pending.
NewModel ==
    /\ currentView = viewMain
    /\ matches = <<>>
    /\ selected = 0
    /\ matchDetails = 0
    /\ liveUpdates = <<>>
    /\ loading = FALSE
    /\ updateGen = 0
    /\ gens = <<>>
    /\ ticks = [g \in 1..MaxLoads |-> 0]
    /\ msgs = <<>>

----------------------------------------------------------------------------
(* Construction *)

NoOp == [name |-> "none", goals |-> <<>>]

\* The goroutines of the application that call GoalLink on one client.
Goroutines == {"g1", "g2"}

\* A goroutine's GoalLink call: where it is, the parameter goal, the locals
\* attempt and results1 of the search, and the returned (link, err).
Call(where, goal, n, r1, l, e) ==
    [at |-> where, goal |-> goal, attempt |-> n, results1 |-> r1, link |-> l, err |-> e]

\* The goroutine is not inside GoalLink.
NoCall == Call("idle", NoGoal, 0, NoResp, NilLink, NoErr)

Fresh ==
    /\ cache = [k \in Keys |-> NilLink]
    /\ pc = "idle"
    /\ op = NoOp
    /\ prev = NoGoal
    /\ uncachedGoals = <<>>
    /\ i = 0
    /\ j = 0
    /\ results = EmptyMap
    /\ cur = NoGoal
    /\ attempt = 0
    /\ results1 = NoResp
    /\ inflight = {}
    /\ writeErr = FALSE
    /\ link = NilLink
    /\ err = NoErr
    /\ trace = <<>>
    /\ FreshFetcher
    /\ racers = [g \in Goroutines |-> NoCall]
    /\ searched = [k \in Keys |-> 0]
    /\ written = [k \in Keys |-> 0]
    /\ stats = NoStats
    /\ answers = <<>>
    /\ statsRet = NoStatsRet
    /\ NewModel

\* NewClientWithFetcher with an arbitrary fetcher and an empty cache.
Init == fetcher = "any" /\ workload = "short" /\ store = "sound" /\ Fresh

\* The same client over storage whose writes may fail.
InitFlaky == fetcher = "any" /\ workload = "short" /\ store = "flaky" /\ Fresh

\* NewClientWithFetcher with a stateless fake and an empty cache; the caller
\* passes long lists.
InitBatch == fetcher \in Fetchers \ {"any"} /\ workload = "long" /\ store = "sound" /\ Fresh

----------------------------------------------------------------------------
(* Client.GoalLink *)

\* Mutant of cacheHit: the cache is never consulted.
cacheHitNever(cached) == FALSE

\* Mutant of cacheHit: a "not found" marker does not count as a record.
cacheHitLinkOnly(cached) == cached # NilLink /\ ~IsNotFound(cached)

\* Line 444: the cache holds a record (a link or a "not found" marker).
cacheHit(cached) == cached # NilLink

\* Lines 444-450: what GoalLink returns on a cache hit.
cachedResult(cached) == IF IsNotFound(cached) THEN NilLink ELSE cached

\* Mutant of afterSearch: "not found" is not cached.
afterSearchNoMarker(c, goal, l, e, saved) ==
    IF e # NoErr THEN [link |-> NilLink, err |-> e, cache |-> c]
    ELSE IF l # NilLink
    THEN [link |-> l, err |-> NoErr, cache |-> IF saved THEN Set(c, l) ELSE c]
    ELSE [link |-> NilLink, err |-> NoErr, cache |-> c]

\* The error of a cache write that was not saved.
ErrSave == <<"save goal links: write failed">>

\* Mutant of afterSearch: the error of the cache write is returned.
afterSearchPropagating(c, goal, l, e, saved) ==
    IF e # NoErr THEN [link |-> NilLink, err |-> e, cache |-> c]
    ELSE IF ~saved THEN [link |-> NilLink, err |-> ErrSave, cache |-> c]
    ELSE IF l # NilLink THEN [link |-> l, err |-> NoErr, cache |-> Set(c, l)]
    ELSE [link |-> NilLink, err |-> NoErr,
          cache |-> SetNotFound(c, goal.MatchID, goal.Minute)]

\* Lines 454-467: what GoalLink does with searchForGoal's (l, e); saved tells
\* whether the cache write succeeds, and its error is dropped (`_ =`, lines
\* 461 and 464).
afterSearch(c, goal, l, e, saved) ==
    IF e # NoErr THEN [link |-> NilLink, err |-> e, cache |-> c]
    ELSE IF l # NilLink
    THEN [link |-> l, err |-> NoErr, cache |-> IF saved THEN Set(c, l) ELSE c]
    ELSE [link |-> NilLink, err |-> NoErr,
          cache |-> IF saved THEN SetNotFound(c, goal.MatchID, goal.Minute) ELSE c]

\* Mutant of resumeGoalLinks: GoalLinks returns at the first goal without a link.
resumeGoalLinksAbort(l, e) ==
    LET n == Len(uncachedGoals)
        key == GoalLinkKey(uncachedGoals[j + 1])
        done == j + 1 >= batchEnd(i, n)
    IN /\ results' = accumulate(results, key, l, e)
       /\ j' = j + 1
       /\ i' = IF done THEN i + BatchSize ELSE i
       /\ pc' = IF (done /\ i + BatchSize >= n) \/ l = NilLink THEN "returned" ELSE "batch"
       /\ UNCHANGED <<link, err>>

\* GoalLinks, lines 519-526, from the return of GoalLink(uncachedGoals[j]) on:
\* keep the link, go to the next goal or batch, or return.
resumeGoalLinks(l, e) ==
    LET n == Len(uncachedGoals)
        key == GoalLinkKey(uncachedGoals[j + 1])
        done == j + 1 >= batchEnd(i, n)
    IN /\ results' = accumulate(results, key, l, e)
       /\ j' = j + 1
       /\ i' = IF done THEN i + BatchSize ELSE i
       /\ pc' = IF done /\ i + BatchSize >= n THEN "returned" ELSE "batch"
       /\ UNCHANGED <<link, err>>

\* GoalLink(goal of identity key) returns (l, e) to its caller: to the application (top = "GoalLink")
\* or to GoalLinks.
returnGoalLink(top, key, l, e, c, tr) ==
    /\ cache' = c
    /\ trace' = Append(tr, EvReturn(key, l, e))
    /\ cur' = NoGoal
    /\ attempt' = 0
    /\ IF top = "GoalLink"
       THEN /\ pc' = "returned"
            /\ link' = l
            /\ err' = e
            /\ results' = EmptyMap
            /\ i' = 0
            /\ j' = 0
       ELSE resumeGoalLinks(l, e)

\* GoalLink(goal), lines 440-453, up to the first fetcher call.
enterGoalLink(top, goal, tr) ==
    LET key == GoalLinkKey(goal)
        cached == Get(cache, key)
        tr1 == Append(tr, EvCall(key))
    IN IF cacheHit(cached)
       THEN returnGoalLink(top, key, cachedResult(cached), NoErr, cache, tr1)
       ELSE /\ pc' = "search"
            /\ cur' = goal
            /\ attempt' = 0
            /\ trace' = tr1
            /\ cache' = cache
            /\ IF top = "GoalLink"
               THEN link' = NilLink /\ err' = NoErr /\ results' = EmptyMap /\ i' = 0 /\ j' = 0
               ELSE UNCHANGED <<link, err, results, i, j>>

\* The application calls GoalLink(goal).
GoalLink ==
    /\ pc = "idle"
    /\ \E goal \in ShortGoals :
         /\ op' = [name |-> "GoalLink", goals |-> <<goal>>]
         /\ uncachedGoals' = <<>>
         /\ enterGoalLink("GoalLink", goal, <<>>)
    /\ writeErr' = FALSE
    /\ UNCHANGED <<fetcher, workload, store, prev, results1, inflight>>
    /\ UNCHANGED notClient

\* The top of an iteration of the loop of searchForGoal (lines 537-545): the
\* backoff sleep, then searchForGoalOnce up to its call of Search(query1).
searchForGoal ==
    /\ pc = "search"
    /\ trace' = IF attempt > 0 THEN Append(trace, EvSleep(backoff(attempt))) ELSE trace
    /\ inflight' = afterCall(inflight, GoalLinkKey(cur), "A")
    /\ pc' = "inQuery1"
    /\ UNCHANGED <<fetcher, workload, store, cache, op, prev, uncachedGoals, i, j, results, cur,
                   attempt, results1, link, err, writeErr>>
    /\ UNCHANGED notClient

\* searchForGoalOnce has returned once to searchForGoal (lines 546-561): the
\* next iteration, or the return through GoalLink to its caller.
endAttempt(once, tr) ==
    LET step == loopStep(attempt, once)
    IN IF step = "continue"
       THEN /\ attempt' = attempt + 1
            /\ pc' = "search"
            /\ trace' = tr
            /\ UNCHANGED <<cur, cache, results, i, j, link, err, writeErr>>
       ELSE \E saved \in SaveOutcomes(store) :
               LET out == afterSearch(cache, cur,
                                      IF step = "return" THEN once.link ELSE NilLink,
                                      IF step = "return" THEN NoErr ELSE once.err,
                                      saved)
               IN /\ writeErr' = (step = "return" /\ ~saved)
                  /\ returnGoalLink(op.name, GoalLinkKey(cur), out.link, out.err,
                                    out.cache, tr)

\* Search(query1) returns (lines 570-588): the attempt ends with the match of
\* query1, or goes on to query2.
returnQuery1 ==
    /\ pc = "inQuery1"
    /\ \E r1 \in Search(fetcher, cur, "A") :
         LET key == GoalLinkKey(cur)
             tr == Append(trace, EvSearch(key, "A", r1.err, attempt, r1.results))
         IN /\ inflight' = afterReturn(inflight, key, "A")
            /\ IF returnsAfterQuery1(cur, r1)
               THEN /\ results1' = NoResp
                    /\ endAttempt(searchForGoalOnce(cur, r1, r1), tr)
               ELSE /\ results1' = r1
                    /\ pc' = "afterQuery1"
                    /\ trace' = tr
                    /\ UNCHANGED <<cur, attempt, cache, results, i, j, link, err, writeErr>>
    /\ UNCHANGED <<fetcher, workload, store, op, prev, uncachedGoals>>
    /\ UNCHANGED notClient

\* Lines 590-592: the call of Search(query2).
callQuery2 ==
    /\ pc = "afterQuery1"
    /\ inflight' = afterCall(inflight, GoalLinkKey(cur), "B")
    /\ pc' = "inQuery2"
    /\ UNCHANGED <<fetcher, workload, store, cache, op, prev, uncachedGoals, i, j, results, cur,
                   attempt, results1, link, err, trace, writeErr>>
    /\ UNCHANGED notClient

\* Search(query2) returns (lines 592-630): the pooled results are scored and
\* searchForGoalOnce returns.
returnQuery2 ==
    /\ pc = "inQuery2"
    /\ \E r2 \in Search(fetcher, cur, "B") :
         LET key == GoalLinkKey(cur)
             tr == Append(trace, EvSearch(key, "B", r2.err, attempt, r2.results))
         IN /\ inflight' = afterReturn(inflight, key, "B")
            /\ results1' = NoResp
            /\ endAttempt(searchForGoalOnce(cur, results1, r2), tr)
    /\ UNCHANGED <<fetcher, workload, store, op, prev, uncachedGoals>>
    /\ UNCHANGED notClient

----------------------------------------------------------------------------
(* Client.GoalLinks *)

\* The application calls GoalLinks(goals): lines 479-504, and the return if
\* nothing is left to fetch.
GoalLinks ==
    /\ pc = "idle"
    /\ \E goals \in InputLists :
         LET p == partition(goals, cache)
         IN /\ op' = [name |-> "GoalLinks", goals |-> goals]
            /\ results' = p.results
            /\ uncachedGoals' = p.uncachedGoals
            /\ trace' = p.checks
            /\ pc' = IF p.uncachedGoals = <<>> THEN "returned" ELSE "batch"
    /\ i' = 0
    /\ j' = 0
    /\ link' = NilLink
    /\ err' = NoErr
    /\ writeErr' = FALSE
    /\ UNCHANGED <<fetcher, workload, store, prev, cache, cur, attempt, results1, inflight>>
    /\ UNCHANGED notClient

\* Lines 507-521: the delay before a batch that is not the first, and the call
\* of GoalLink for the next goal.
nextGoal ==
    /\ pc = "batch"
    /\ LET tr == IF j = i /\ needsDelay(i) THEN Append(trace, EvSleep(BatchDelay)) ELSE trace
       IN enterGoalLink("GoalLinks", uncachedGoals[j + 1], tr)
    /\ writeErr' = FALSE
    /\ UNCHANGED <<fetcher, workload, store, op, prev, uncachedGoals, results1, inflight>>
    /\ UNCHANGED notClient

----------------------------------------------------------------------------
(* Client.ClearCache *)

ClearCache ==
    /\ pc = "idle"
    /\ cache' = Clear(cache)
    /\ op' = [name |-> "ClearCache", goals |-> <<>>]
    /\ trace' = <<>>
    /\ uncachedGoals' = <<>>
    /\ results' = EmptyMap
    /\ i' = 0
    /\ j' = 0
    /\ link' = NilLink
    /\ err' = NoErr
    /\ pc' = "returned"
    /\ UNCHANGED <<fetcher, workload, store, writeErr, prev, cur, attempt, results1, inflight>>
    /\ UNCHANGED notClient

----------------------------------------------------------------------------
(* The application *)

\* The caller takes the results of the returned call; the locals of the call
\* are gone.
Return ==
    /\ pc = "returned"
    /\ pc' = "idle"
    /\ prev' = IF op.name = "GoalLink" THEN op.goals[1] ELSE NoGoal
    /\ op' = NoOp
    /\ trace' = <<>>
    /\ uncachedGoals' = <<>>
    /\ results' = EmptyMap
    /\ i' = 0
    /\ j' = 0
    /\ link' = NilLink
    /\ err' = NoErr
    /\ UNCHANGED <<fetcher, workload, store, writeErr, cache, cur, attempt, results1, inflight>>
    /\ UNCHANGED notClient

----------------------------------------------------------------------------

Next ==
    \/ GoalLink
    \/ searchForGoal
    \/ returnQuery1
    \/ callQuery2
    \/ returnQuery2
    \/ GoalLinks
    \/ nextGoal
    \/ ClearCache
    \/ Return

Spec == Init /\ [][Next]_vars

\* Fetcher.Search returns and the caller's code runs on.
SpecLive ==
    /\ Spec
    /\ WF_vars(searchForGoal)
    /\ WF_vars(returnQuery1)
    /\ WF_vars(callQuery2)
    /\ WF_vars(returnQuery2)

SpecBatch == InitBatch /\ [][Next]_vars

SpecFlaky == InitFlaky /\ [][Next]_vars

----------------------------------------------------------------------------
(* Client.GoalLink, called by concurrent goroutines *)

\* Goroutine g calls GoalLink(goal), lines 440-453: the cache is read
\* (cache.Get locks the cache for the read only), and on a miss the search
\* begins with Search(query1).
raceGoalLink(g) ==
    /\ racers[g].at = "idle"
    /\ \E goal \in ShortGoals :
         LET key == GoalLinkKey(goal)
             cached == Get(cache, key)
         IN IF cacheHit(cached)
            THEN /\ racers' = [racers EXCEPT ![g] = Call("returned", goal, 0, NoResp,
                                                         cachedResult(cached), NoErr)]
                 /\ UNCHANGED searched
            ELSE /\ racers' = [racers EXCEPT ![g] = Call("inQuery1", goal, 0, NoResp,
                                                         NilLink, NoErr)]
                 /\ searched' = [searched EXCEPT ![key] = searched[key] + 1]
    /\ UNCHANGED <<cache, written>>
    /\ UNCHANGED notRace

\* searchForGoalOnce has returned to searchForGoal in goroutine g (lines
\* 546-561), and searchForGoal to GoalLink (lines 454-467): the next attempt,
\* or the cache write and the return.
raceEndAttempt(g, once) ==
    LET c == racers[g]
        key == GoalLinkKey(c.goal)
        step == loopStep(c.attempt, once)
        out == afterSearch(cache, c.goal,
                           IF step = "return" THEN once.link ELSE NilLink,
                           IF step = "return" THEN NoErr ELSE once.err,
                           TRUE)
    IN IF step = "continue"
       THEN /\ racers' = [racers EXCEPT ![g] = Call("inQuery1", c.goal, c.attempt + 1,
                                                    NoResp, NilLink, NoErr)]
            /\ UNCHANGED <<cache, written>>
       ELSE /\ racers' = [racers EXCEPT ![g] = Call("returned", c.goal, 0, NoResp,
                                                    out.link, out.err)]
            /\ cache' = out.cache
            /\ written' = IF out.err = NoErr
                          THEN [written EXCEPT ![key] = written[key] + 1]
                          ELSE written

\* Search(query1) returns in goroutine g (lines 570-588).
raceQuery1(g) ==
    /\ racers[g].at = "inQuery1"
    /\ \E r1 \in Search(fetcher, racers[g].goal, "A") :
         IF returnsAfterQuery1(racers[g].goal, r1)
         THEN raceEndAttempt(g, searchForGoalOnce(racers[g].goal, r1, r1))
         ELSE /\ racers' = [racers EXCEPT ![g].at = "inQuery2", ![g].results1 = r1]
              /\ UNCHANGED <<cache, written>>
    /\ UNCHANGED searched
    /\ UNCHANGED notRace

\* Search(query2) returns in goroutine g (lines 592-630).
raceQuery2(g) ==
    /\ racers[g].at = "inQuery2"
    /\ \E r2 \in Search(fetcher, racers[g].goal, "B") :
         raceEndAttempt(g, searchForGoalOnce(racers[g].goal, racers[g].results1, r2))
    /\ UNCHANGED searched
    /\ UNCHANGED notRace

\* The goroutine takes the result of its GoalLink call.
raceReturn(g) ==
    /\ racers[g].at = "returned"
    /\ racers' = [racers EXCEPT ![g] = NoCall]
    /\ UNCHANGED <<cache, searched, written>>
    /\ UNCHANGED notRace

NextRace ==
    \E g \in Goroutines :
       \/ raceGoalLink(g)
       \/ raceQuery1(g)
       \/ raceQuery2(g)
       \/ raceReturn(g)

\* One client with an arbitrary fetcher and an empty cache, and two goroutines
\* that call GoalLink.
SpecRace == Init /\ [][NextRace]_vars

----------------------------------------------------------------------------
(* fotmob Client.FetchStatsData, its steps *)

\* The stats view calls FetchStatsData (lines 41-49).
FetchStatsData ==
    /\ stats.at = "idle"
    /\ stats' = Locals("loop", 0, <<>>, <<>>, <<>>, NoErr, 0)
    /\ answers' = <<>>
    /\ statsRet' = NoStatsRet
    /\ UNCHANGED notStats

\* One iteration of the loop (lines 52-88): the day is fetched and, unless
\* the fetch failed, its matches are sorted into the three lists.
fetchDay ==
    /\ stats.at = "loop"
    /\ stats.i < StatsDataDays
    /\ \E a \in DayAnswers(stats.i) :
         /\ answers' = Append(answers, [day |-> stats.i, tabs |-> tabsFor(stats.i),
                                       matches |-> a.matches, err |-> a.err])
         /\ stats' =
               IF a.err # NoErr
               THEN [stats EXCEPT !.i = stats.i + 1, !.lastErr = dayError(stats.i, a.err)]
               ELSE [stats EXCEPT
                       !.i = stats.i + 1,
                       !.successCount = stats.successCount + 1,
                       !.allFinished =
                           appendMatches(stats.allFinished, a.matches, "finished", TRUE),
                       !.todayFinished =
                           appendMatches(stats.todayFinished, a.matches, "finished",
                                         isToday(stats.i)),
                       !.todayUpcoming =
                           appendMatches(stats.todayUpcoming, a.matches, "not_started",
                                         isToday(stats.i))]
    /\ UNCHANGED statsRet
    /\ UNCHANGED notStats

\* Lines 90-98: the loop is over, FetchStatsData returns.
returnStats ==
    /\ stats.at = "loop"
    /\ stats.i >= StatsDataDays
    /\ statsRet' =
          IF allFailed(stats.successCount)
          THEN [data |-> NilStats, err |-> statsError(stats.lastErr), returned |-> TRUE]
          ELSE [data |-> [AllFinished |-> stats.allFinished,
                          TodayFinished |-> stats.todayFinished,
                          TodayUpcoming |-> stats.todayUpcoming,
                          nil |-> FALSE],
                err |-> NoErr, returned |-> TRUE]
    /\ stats' = NoStats
    /\ UNCHANGED answers
    /\ UNCHANGED notStats

NextStats ==
    \/ FetchStatsData
    \/ fetchDay
    \/ returnStats

\* The stats view calls FetchStatsData again and again.
SpecStats == Init /\ [][NextStats]_vars

----------------------------------------------------------------------------
(* app model.Update *)

\* loadMatchDetails (lines 180-190): the details are set, a new generator is
\* made, and fetchLiveUpdate schedules a tick on it.
loadMatchDetails(matchID) ==
    /\ Len(gens) < MaxLoads
    /\ matchDetails' = matchID
    /\ gens' = Append(gens, NewLiveUpdateGenerator(matchID))
    /\ updateGen' = Len(gens) + 1
    /\ liveUpdates' = <<>>
    /\ loading' = TRUE
    /\ ticks' = [ticks EXCEPT ![Len(gens) + 1] = ticks[Len(gens) + 1] + 1]
    /\ UNCHANGED msgs

\* Update, key "esc" (lines 82-90).
keyEsc ==
    /\ currentView # viewMain
    /\ currentView' = viewMain
    /\ selected' = 0
    /\ matchDetails' = 0
    /\ liveUpdates' = <<>>
    /\ loading' = FALSE
    /\ UNCHANGED <<matches, updateGen, gens, ticks, msgs>>
    /\ UNCHANGED notApp

\* handleMainViewKeys, keys "j", "down", "k", "up" (lines 106-115).
mainMove ==
    /\ currentView = viewMain
    /\ \/ selected < 1 /\ selected' = selected + 1
       \/ selected > 0 /\ selected' = selected - 1
    /\ UNCHANGED <<currentView, matches, matchDetails, liveUpdates, loading, updateGen, gens,
                   ticks, msgs>>
    /\ UNCHANGED notApp

\* handleMainViewKeys, key "enter" on "Live Matches" (lines 116-149).
mainEnter ==
    /\ currentView = viewMain
    /\ selected = 1
    /\ \E mock \in MockMatches :
         IF mock.err
         THEN /\ currentView' = viewLiveMatches
              /\ matches' = <<>>
              /\ UNCHANGED <<selected, matchDetails, liveUpdates, loading, updateGen, gens,
                             ticks, msgs>>
         ELSE /\ matches' = mock.matches
              /\ currentView' = viewLiveMatches
              /\ selected' = 0
              /\ IF Len(mock.matches) > 0
                 THEN loadMatchDetails(mock.matches[1])
                 ELSE UNCHANGED <<matchDetails, liveUpdates, loading, updateGen, gens, ticks,
                                  msgs>>
    /\ UNCHANGED notApp

\* handleLiveMatchesKeys, keys "j", "down" (lines 157-165).
liveDown ==
    /\ currentView = viewLiveMatches
    /\ selected < Len(matches) - 1
    /\ selected' = selected + 1
    /\ loadMatchDetails(matches[selected + 2])
    /\ UNCHANGED <<currentView, matches>>
    /\ UNCHANGED notApp

\* handleLiveMatchesKeys, keys "k", "up" (lines 166-174).
liveUp ==
    /\ currentView = viewLiveMatches
    /\ selected > 0
    /\ selected' = selected - 1
    /\ IF selected - 1 < Len(matches)
       THEN loadMatchDetails(matches[selected])
       ELSE UNCHANGED <<matchDetails, liveUpdates, loading, updateGen, gens, ticks, msgs>>
    /\ UNCHANGED <<currentView, matches>>
    /\ UNCHANGED notApp

\* A tick of fetchLiveUpdate fires (lines 210-215): the generator it was
\* made with gives its next update, which is sent to the program.
tick(g) ==
    /\ g <= Len(gens)
    /\ ticks[g] > 0
    /\ ticks' = [ticks EXCEPT ![g] = ticks[g] - 1]
    /\ IF HasMore(gens[g])
       THEN /\ gens' = [gens EXCEPT ![g].next = gens[g].next + 1]
            /\ msgs' = Append(msgs, LiveUpdate(g, gens[g].next + 1))
       ELSE /\ gens' = gens
            /\ msgs' = Append(msgs, LiveUpdate(g, 0))
    /\ UNCHANGED <<currentView, matches, selected, matchDetails, liveUpdates, loading,
                   updateGen>>
    /\ UNCHANGED notApp

\* Update, case liveUpdateMsg (lines 67-77).
liveUpdateMsg ==
    /\ msgs # <<>>
    /\ msgs' = Tail(msgs)
    /\ IF loading
       THEN /\ liveUpdates' = Append(liveUpdates, Head(msgs))
            /\ IF updateGen # 0 /\ HasMore(gens[updateGen])
               THEN /\ ticks' = [ticks EXCEPT ![updateGen] = ticks[updateGen] + 1]
                    /\ UNCHANGED loading
               ELSE /\ loading' = FALSE
                    /\ UNCHANGED ticks
       ELSE UNCHANGED <<liveUpdates, loading, ticks>>
    /\ UNCHANGED <<currentView, matches, selected, matchDetails, updateGen, gens>>
    /\ UNCHANGED notApp

NextApp ==
    \/ keyEsc
    \/ mainMove
    \/ mainEnter
    \/ liveDown
    \/ liveUp
    \/ \E g \in 1..MaxLoads : tick(g)
    \/ liveUpdateMsg

\* The program of NewModel, its keys and its ticks.
SpecApp == Init /\ [][NextApp]_vars

----------------------------------------------------------------------------
(* PublicJSONFetcher.Search and rateLimiter, called by concurrent goroutines *)

\* d seconds pass.
elapse(d) ==
    /\ sinceLastRequest' = Min(AgeCap, sinceLastRequest + d)
    /\ sinceLastCaptcha' = Min(captchaWindow, sinceLastCaptcha + d)

\* Caller p calls Search, which calls wait (line 343): p is at r.mu.Lock().
callSearch(p) ==
    /\ at[p] = "idle"
    /\ at' = [at EXCEPT ![p] = "lock"]
    /\ waits' = [waits EXCEPT ![p] = waits[p] + 1]
    /\ UNCHANGED <<mu, sinceLastRequest, sinceLastCaptcha, captchaCount, currentInterval,
                   resp, ret, recorded, requests>>
    /\ UNCHANGED notFetcher

\* wait, line 301: p gets the mutex.
lockWait(p) ==
    /\ at[p] = "lock"
    /\ canLock(mu)
    /\ mu' = p
    /\ at' = [at EXCEPT ![p] = "inWait"]
    /\ UNCHANGED <<sinceLastRequest, sinceLastCaptcha, captchaCount, currentInterval,
                   resp, ret, recorded, waits, requests>>
    /\ UNCHANGED notFetcher

\* wait, lines 304-315: elapsed and currentInterval are computed and p
\* sleeps, at least the duration asked for, holding the mutex.
sleepWait(p) ==
    /\ at[p] = "inWait"
    /\ LET interval == intervalFor(captchaCount, sinceLastCaptcha)
           d == sleepFor(sinceLastRequest, interval)
       IN /\ currentInterval' = [currentInterval EXCEPT ![p] = interval]
          /\ \E slept \in (IF d = 0 THEN {0} ELSE {d, d + TickStep}) : elapse(slept)
    /\ at' = [at EXCEPT ![p] = "stamp"]
    /\ UNCHANGED <<mu, captchaCount, resp, ret, recorded, waits, requests>>
    /\ UNCHANGED notFetcher

\* wait, line 316 and the deferred Unlock: lastRequest is now, wait returns.
stampWait(p) ==
    /\ at[p] = "stamp"
    /\ sinceLastRequest' = 0
    /\ mu' = Unlocked
    /\ currentInterval' = [currentInterval EXCEPT ![p] = 0]
    /\ at' = [at EXCEPT ![p] = "request"]
    /\ UNCHANGED <<sinceLastCaptcha, captchaCount, resp, ret, recorded, waits, requests>>
    /\ UNCHANGED notFetcher

\* Lines 361-407: the request is sent and the response classified.
httpDo(p) ==
    /\ at[p] = "request"
    /\ \E r \in Responses :
         LET res == searchResult(r)
         IN /\ res.record => captchaCount < MaxCaptchaCount
            /\ resp' = [resp EXCEPT ![p] = r]
            /\ ret' = [ret EXCEPT ![p] = [err |-> res.err, results |-> res.results]]
            /\ at' = [at EXCEPT ![p] = afterResponse(res)]
    /\ requests' = [requests EXCEPT ![p] = requests[p] + 1]
    /\ UNCHANGED <<mu, sinceLastRequest, sinceLastCaptcha, captchaCount, currentInterval,
                   recorded, waits>>
    /\ UNCHANGED notFetcher

\* Lines 320-326, called at line 385.
recordCaptchaError(p) ==
    /\ at[p] = "record"
    /\ canLock(mu)
    /\ captchaCount' = captchaCount + 1
    /\ sinceLastCaptcha' = 0
    /\ recorded' = [recorded EXCEPT ![p] = recorded[p] + 1]
    /\ at' = [at EXCEPT ![p] = "done"]
    /\ UNCHANGED <<mu, sinceLastRequest, currentInterval, resp, ret, waits, requests>>
    /\ UNCHANGED notFetcher

\* Search returns to its caller.
returnSearch(p) ==
    /\ at[p] = "done"
    /\ at' = [at EXCEPT ![p] = "idle"]
    /\ resp' = [resp EXCEPT ![p] = NoHTTP]
    /\ ret' = [ret EXCEPT ![p] = NoOut]
    /\ recorded' = [recorded EXCEPT ![p] = 0]
    /\ waits' = [waits EXCEPT ![p] = 0]
    /\ requests' = [requests EXCEPT ![p] = 0]
    /\ UNCHANGED <<mu, sinceLastRequest, sinceLastCaptcha, captchaCount, currentInterval>>
    /\ UNCHANGED notFetcher

\* Time passes.
Tick ==
    /\ elapse(TickStep)
    /\ UNCHANGED <<mu, captchaCount, at, currentInterval, resp, ret, recorded, waits, requests>>
    /\ UNCHANGED notFetcher

NextFetcher ==
    \/ \E p \in Callers :
          \/ callSearch(p)
          \/ lockWait(p)
          \/ sleepWait(p)
          \/ stampWait(p)
          \/ httpDo(p)
          \/ recordCaptchaError(p)
          \/ returnSearch(p)
    \/ Tick

\* A fetcher from NewPublicJSONFetcher, with its callers.
SpecFetcher == Init /\ [][NextFetcher]_vars

\* The scheduler runs every goroutine, a sleep ends, and sync.Mutex hands a
\* mutex that is freed again and again to every goroutine waiting for it.
SpecFetcherLive ==
    /\ SpecFetcher
    /\ \A p \in Callers :
          /\ SF_vars(lockWait(p))
          /\ WF_vars(sleepWait(p))
          /\ WF_vars(stampWait(p))

----------------------------------------------------------------------------
(* Vocabulary of the properties *)

Returned(name) == pc = "returned" /\ op.name = name

\* The identity of the goal of the (running or returned) GoalLink call.
OpKey == GoalLinkKey(op.goals[1])

\* The identities of the input list of the call.
InputKeys == {GoalLinkKey(op.goals[n]) : n \in DOMAIN op.goals}

\* Positions of the trace holding a fetcher call, a fetcher call for k, ...
Searches == {n \in DOMAIN trace : trace[n].e = "search"}
SearchesFor(k) == {n \in Searches : trace[n].key = k}
CallsFor(k) == {n \in DOMAIN trace : trace[n].e = "call" /\ trace[n].key = k}
ChecksFor(k) == {n \in DOMAIN trace : trace[n].e = "check" /\ trace[n].key = k}
Sleeps == {n \in DOMAIN trace : trace[n].e = "sleep"}
Calls == {n \in DOMAIN trace : trace[n].e = "call"}
\* GoalLink returned a link for k in this call.
FoundFor(k) ==
    \E n \in DOMAIN trace : trace[n].e = "return" /\ trace[n].key = k /\ trace[n].q = "link"
\* The sleeps right before a call of GoalLink: the delays between batches.
BatchDelays == {n \in Sleeps : n + 1 \in Calls}

\* The events a step adds to the trace.
NewEvents ==
    IF Len(trace') >= Len(trace) THEN SubSeq(trace', Len(trace) + 1, Len(trace')) ELSE <<>>

IsResolved(l) == l # NilLink /\ ~IsNotFound(l)

\* The fetcher failed the resolution of k in this call: a hard error on some
\* call, or a soft block on every call.
FetcherFailed(k) ==
    /\ SearchesFor(k) # {}
    /\ \/ \E n \in SearchesFor(k) : trace[n].r = ErrStatus
       \/ \A n \in SearchesFor(k) : trace[n].r = ErrCaptcha

----------------------------------------------------------------------------
(* C1 *)

----------------------------------------------------------------------------
(* C2 *)

\* C2 (failed resolutions write nothing): when GoalLink returns from a call in
\* which the fetcher failed (a hard error, or soft blocks on every call), the
\* cache holds no record for the identity.
C2_FailedWritesNothing ==
    (Returned("GoalLink") /\ FetcherFailed(OpKey)) => Get(cache, OpKey) = NilLink

----------------------------------------------------------------------------
(* C3 *)

\* C3 (hard-error short-circuit): when GoalLink returns from a call whose
\* first attempt met a hard error of the fetcher, no further attempt was made,
\* nothing slept, the error is returned and the cache holds no record for the
\* identity.
C3_HardErrorShortCircuit ==
    (Returned("GoalLink")
     /\ \E n \in Searches : trace[n].a = 0 /\ trace[n].r = ErrStatus)
        => /\ \A n \in Searches : trace[n].a = 0
           /\ Sleeps = {}
           /\ err = ErrStatus
           /\ Get(cache, OpKey) = NilLink

----------------------------------------------------------------------------
(* C4 *)

\* The durations of the sleeps of the trace, in order.
RECURSIVE sleepsOf(_)
sleepsOf(tr) ==
    IF tr = <<>> THEN <<>>
    ELSE LET rest == sleepsOf(SubSeq(tr, 1, Len(tr) - 1))
         IN IF tr[Len(tr)].e = "sleep" THEN Append(rest, tr[Len(tr)].d) ELSE rest

\* C4 (backoff bound): when GoalLink returns from a call in which every
\* fetcher response was a soft block, it made exactly the attempts 1, 2 and 3,
\* slept exactly twice, at least 30 s and then at least 60 s, each sleep right
\* before the first fetcher call of attempts 2 and 3, returns the soft-block
\* error and the cache holds no record for the identity.
C4_BackoffBound ==
    (Returned("GoalLink")
     /\ Searches # {}
     /\ \A n \in Searches : trace[n].r = ErrCaptcha)
        => /\ {trace[n].a : n \in Searches} = 0..2
           /\ Len(sleepsOf(trace)) = 2
           /\ sleepsOf(trace)[1] >= 30
           /\ sleepsOf(trace)[2] >= 60
           /\ \A n \in Sleeps : n < Len(trace) /\ trace[n + 1].e = "search"
                                /\ trace[n + 1].q = "A" /\ trace[n + 1].a > 0
           /\ err = ErrCaptcha
           /\ Get(cache, OpKey) = NilLink

----------------------------------------------------------------------------
(* C5 *)

\* A step that is a call of ClearCache.
IsClearCache == pc = "idle" /\ op'.name = "ClearCache"

\* A step that is a call of GoalLink for an identity without a cache record.
IsGoalLinkOfUnknown ==
    /\ pc = "idle"
    /\ op'.name = "GoalLink"
    /\ Get(cache, GoalLinkKey(op'.goals[1])) = NilLink

\* C5 (negative caching): a "not found" marker stays in the cache until
\* ClearCache is called; while the cache holds it, no step calls the fetcher
\* for the identity, GoalLink returns nil with a nil error and the map of
\* GoalLinks does not hold the identity; after ClearCache the cache holds no
\* record, and a GoalLink call for an identity without a record goes on to
\* search.
C5_NegativeCaching ==
    /\ [](Returned("GoalLink") /\ IsNotFound(Get(cache, OpKey))
            => link = NilLink /\ err = NoErr)
    /\ [](op.name = "GoalLinks"
            => \A k \in DOMAIN results : ~IsNotFound(Get(cache, k)))
    /\ [](Returned("ClearCache") => \A k \in Keys : Get(cache, k) = NilLink)
    /\ [][/\ \A k \in Keys :
                IsNotFound(Get(cache, k))
                    => /\ IsNotFound(Get(cache', k)) \/ IsClearCache
                       /\ \A n \in DOMAIN NewEvents :
                             ~(NewEvents[n].e = "search" /\ NewEvents[n].key = k)
          /\ IsGoalLinkOfUnknown => pc' = "search"]_vars

\* GoalLink returned from a call for an identity with a "not found" marker
\* without searching.
C5_Witness ==
    /\ Returned("GoalLink")
    /\ IsNotFound(Get(cache, OpKey))
    /\ Searches = {}

----------------------------------------------------------------------------
(* C6 *)

\* C6 (search gating): a step calls the fetcher for an identity only if the
\* cache holds no record for it; a GoalLink call for an identity with a record
\* returns at once, without a fetcher call, the link or nil for a "not found"
\* marker; a GoalLinks call puts the links of the cache in its map, calls
\* GoalLink for no identity with a record, and so calls the fetcher for none.
C6_SearchGating ==
    [][/\ \A n \in DOMAIN NewEvents :
             NewEvents[n].e = "search" => Get(cache, NewEvents[n].key) = NilLink
       /\ (pc = "idle" /\ op'.name = "GoalLink"
           /\ Get(cache, GoalLinkKey(op'.goals[1])) # NilLink)
             => /\ pc' = "returned"
                /\ err' = NoErr
                /\ link' = IF IsNotFound(Get(cache, GoalLinkKey(op'.goals[1])))
                           THEN NilLink ELSE Get(cache, GoalLinkKey(op'.goals[1]))
                /\ \A n \in DOMAIN trace' : trace'[n].e # "search"
       /\ (pc = "idle" /\ op'.name = "GoalLinks")
             => \A n \in DOMAIN op'.goals :
                   LET k == GoalLinkKey(op'.goals[n])
                   IN Get(cache, k) # NilLink
                        => /\ \A m \in DOMAIN uncachedGoals' :
                                 GoalLinkKey(uncachedGoals'[m]) # k
                           /\ IF IsNotFound(Get(cache, k)) THEN k \notin DOMAIN results'
                              ELSE k \in DOMAIN results' /\ results'[k] = Get(cache, k)]_vars

\* GoalLinks returned having served one identity from the cache and searched
\* for another.
C6_Witness ==
    /\ Returned("GoalLinks")
    /\ \E k \in DOMAIN results : CallsFor(k) = {} /\ ChecksFor(k) # {}
    /\ Searches # {}

----------------------------------------------------------------------------
(* C7 *)

\* C7 (de-duplication in GoalLinks): in a GoalLinks call, whatever the input
\* list, every identity is looked up in the cache by GoalLinks at most once,
\* GoalLink is called for it at most once, and at most one search sequence is
\* started for it.
C7_Deduplication ==
    op.name = "GoalLinks"
        => \A k \in Keys :
              /\ Cardinality(ChecksFor(k)) <= 1
              /\ Cardinality(CallsFor(k)) <= 1
              /\ Cardinality({n \in SearchesFor(k) : trace[n].q = "A" /\ trace[n].a = 0}) <= 1

\* GoalLinks returned from a list holding one identity at least 10 times,
\* having searched for it.
C7_Witness ==
    /\ Returned("GoalLinks")
    /\ \E k \in InputKeys :
          /\ Cardinality({n \in DOMAIN op.goals : GoalLinkKey(op.goals[n]) = k}) >= 10
          /\ SearchesFor(k) # {}

----------------------------------------------------------------------------
(* C8 *)

\* The number of GoalLink calls of the trace up to position p.
Ordinal(p) == Cardinality({x \in Calls : x <= p})

\* The identities of the list that have no cache record.
UnknownIn(goals) ==
    {k \in {GoalLinkKey(goals[n]) : n \in DOMAIN goals} : Get(cache, k) = NilLink}

\* C8 (batch pacing): a GoalLinks call resolves exactly the n distinct
\* identities of its input without a cache record; when it returns, the c-th
\* GoalLink call was preceded by exactly (c-1) div 5 delays, each delay is the
\* fixed BatchDelay and sits right before the first call of a batch, so the
\* batches have 5 goals except possibly the last and there are ceil(n/5)-1
\* delays (none for n <= 5).
C8_BatchPacing ==
    /\ [][(pc = "idle" /\ op'.name = "GoalLinks")
            => Len(uncachedGoals') = Cardinality(UnknownIn(op'.goals))]_vars
    /\ [](Returned("GoalLinks")
            => LET n == Len(uncachedGoals)
               IN /\ Cardinality(Calls) = n
                  /\ \A p \in Calls :
                        Cardinality({x \in Sleeps : x < p}) = (Ordinal(p) - 1) \div 5
                  /\ \A x \in Sleeps :
                        /\ trace[x].d = BatchDelay
                        /\ x + 1 \in Calls
                        /\ Ordinal(x + 1) % 5 = 1
                        /\ Ordinal(x + 1) > 1
                  /\ Cardinality(Sleeps) = IF n = 0 THEN 0 ELSE (n + 4) \div 5 - 1)

\* GoalLinks returned from 12 identities without a cache record: 3 batches of
\* 5, 5 and 2 goals, 2 delays.
C8_Witness ==
    /\ Returned("GoalLinks")
    /\ Len(uncachedGoals) = 12
    /\ Cardinality(BatchDelays) = 2
    /\ \E x, y \in BatchDelays :
          /\ x < y
          /\ Cardinality({p \in Calls : p < x}) = 5
          /\ Cardinality({p \in Calls : x < p /\ p < y}) = 5
          /\ Cardinality({p \in Calls : y < p}) = 2

----------------------------------------------------------------------------
(* C9 *)

\* Every fetcher call for k in this call failed.
AllSearchesFailed(k) ==
    SearchesFor(k) # {} /\ \A n \in SearchesFor(k) : trace[n].r # NoErr

\* C9 (failure isolation in GoalLinks): whatever GoalLink returns for a goal
\* that is not the last one, GoalLinks goes on to the next goal and the links
\* already in its map stay; so when GoalLinks returns, GoalLink was called and
\* the fetcher was asked for every identity without a cache record, and no
\* error is returned.
C9_FailureIsolation ==
    /\ [][(op.name = "GoalLinks" /\ pc # "idle" /\ pc # "returned")
            => /\ \A k \in DOMAIN results :
                     k \in DOMAIN results' /\ results'[k] = results[k]
               /\ (j' = j + 1 /\ j' < Len(uncachedGoals)) => pc' = "batch"]_vars
    /\ [](Returned("GoalLinks")
            => /\ \A n \in DOMAIN uncachedGoals :
                     /\ CallsFor(GoalLinkKey(uncachedGoals[n])) # {}
                     /\ SearchesFor(GoalLinkKey(uncachedGoals[n])) # {}
               /\ \A k \in Keys : FoundFor(k) => k \in DOMAIN results
               /\ err = NoErr)

\* GoalLinks returned with a link found before and a link found after an
\* identity for which every fetcher call failed.
C9_Witness ==
    /\ Returned("GoalLinks")
    /\ \E a, b, c \in DOMAIN uncachedGoals :
          /\ a < b
          /\ b < c
          /\ GoalLinkKey(uncachedGoals[a]) \in DOMAIN results
          /\ AllSearchesFailed(GoalLinkKey(uncachedGoals[b]))
          /\ GoalLinkKey(uncachedGoals[b]) \notin DOMAIN results
          /\ GoalLinkKey(uncachedGoals[c]) \in DOMAIN results

----------------------------------------------------------------------------
(* C10 *)

\* GoalLinks found a record for k in the cache (and so did not call GoalLink).
ServedFromCache(k) == ChecksFor(k) # {} /\ CallsFor(k) = {}

\* C10 (content of the map of GoalLinks): when GoalLinks returns, its map
\* holds exactly the input identities that had a link in the cache when
\* checked and those for which GoalLink returned a link; every value is that
\* link (never nil, never a "not found" marker) and carries its key; no
\* identity whose fetcher calls all failed or whose search found no match is
\* in the map.
C10_OutputMap ==
    Returned("GoalLinks")
        => /\ DOMAIN results \subseteq InputKeys
           /\ \A k \in InputKeys :
                 k \in DOMAIN results
                    <=> \/ ServedFromCache(k) /\ IsResolved(Get(cache, k))
                        \/ FoundFor(k)
           /\ \A k \in DOMAIN results :
                 /\ results[k] # NilLink
                 /\ ~IsNotFound(results[k])
                 /\ [MatchID |-> results[k].MatchID, Minute |-> results[k].Minute] = k
                 /\ results[k] = Get(cache, k)
           /\ \A k \in InputKeys :
                 (AllSearchesFailed(k) \/ IsNotFound(Get(cache, k))) => k \notin DOMAIN results

\* GoalLinks returned a map with a link served from the cache and a link it
\* searched for, from a list that also names an identity again.
C10_Witness ==
    /\ Returned("GoalLinks")
    /\ \E k1, k2 \in DOMAIN results : ServedFromCache(k1) /\ FoundFor(k2)
    /\ Len(op.goals) > Cardinality(InputKeys)

----------------------------------------------------------------------------
(* C11 *)

\* A step in which GoalLink returns from a search for the identity k.
IsReturnFromSearch(k) ==
    /\ pc \in {"inQuery1", "inQuery2"}
    /\ GoalLinkKey(cur) = k
    /\ \E n \in DOMAIN NewEvents : NewEvents[n].e = "return" /\ NewEvents[n].key = k

\* C11 (cache records are immutable): a cache record is written only for an
\* identity that has none, in the step in which GoalLink returns with a nil
\* error from its search for that identity; once written, no step changes it,
\* except a call of ClearCache, which removes it.
C11_CacheImmutability ==
    [][\A k \in Keys :
          /\ Get(cache, k) # NilLink
                => \/ Get(cache', k) = Get(cache, k)
                   \/ IsClearCache /\ Get(cache', k) = NilLink
          /\ (Get(cache, k) = NilLink /\ Get(cache', k) # NilLink)
                => /\ IsReturnFromSearch(k)
                   /\ trace'[Len(trace')].r = NoErr]_vars

\* GoalLinks returned having been asked again for two identities that have a
\* record, a link and a "not found" marker, and both records are what the
\* cache held when the call looked them up.
C11_Witness ==
    /\ Returned("GoalLinks")
    /\ \E k1, k2 \in InputKeys :
          /\ ServedFromCache(k1)
          /\ ServedFromCache(k2)
          /\ IsResolved(Get(cache, k1))
          /\ IsNotFound(Get(cache, k2))
          /\ results[k1] = Get(cache, k1)

----------------------------------------------------------------------------
(* C12 *)

\* C12 (spacing of wait): whenever a caller, alone or with another caller
\* inside Search, is about to set lastRequest and return from wait, at least
\* the interval that call computed has passed since the return from wait
\* before it, and the step that returns takes that time as the new reference;
\* every caller that called wait returns from it.
C12_WaitSpacing ==
    /\ [](\A p \in Callers :
             at[p] = "stamp"
                => /\ currentInterval[p] >= minInterval
                   /\ sinceLastRequest >= currentInterval[p])
    /\ [][\A p \in Callers :
             (at[p] = "stamp" /\ at'[p] = "request")
                => sinceLastRequest >= currentInterval[p] /\ sinceLastRequest' = 0]_vars
    /\ \A p \in Callers : (at[p] = "lock") ~> (at[p] = "request")

\* A caller is about to return from wait exactly one interval after the
\* return before it, while the other caller is blocked on the mutex.
C12_Witness ==
    /\ at["c1"] = "stamp"
    /\ currentInterval["c1"] = minInterval
    /\ sinceLastRequest = minInterval
    /\ at["c2"] = "lock"

----------------------------------------------------------------------------
(* C13 *)

\* C13 (escalation window): a wait that reads the clock less than 10 minutes
\* after the most recent recorded soft block uses exactly twice the baseline
\* interval, however many soft blocks were recorded; a wait that reads it 10
\* minutes or more after, or when no soft block was recorded, uses the
\* baseline interval.
C13_EscalationWindow ==
    [][\A p \in Callers :
          (at[p] = "inWait" /\ at'[p] = "stamp")
             => /\ (captchaCount > 0 /\ sinceLastCaptcha < 600)
                      => currentInterval'[p] = 2 * minInterval
                /\ (captchaCount = 0 \/ sinceLastCaptcha >= 600)
                      => currentInterval'[p] = minInterval]_vars

\* A wait uses the doubled interval after two recorded soft blocks.
C13_Witness ==
    \E p \in Callers :
       /\ at[p] = "stamp"
       /\ captchaCount = 2
       /\ currentInterval[p] = 2 * minInterval

----------------------------------------------------------------------------
(* C14 *)

\* The responses the spec classifies as a soft block: status 200 with a body
\* that holds an indicator phrase or is HTML that does not parse as JSON.
IsSoftBlockResponse(r) ==
    /\ ~r.doErr
    /\ r.status = 200
    /\ isCaptchaResponse(r.body) \/ (r.json = Invalid /\ isHTML(r.body))

\* C14 (soft blocks are retryable and reported): when Search is about to
\* return from a soft-block response, it returns an error that searchForGoal
\* takes as retryable and it has called recordCaptchaError exactly once.
C14_SoftBlockReported ==
    \A p \in Callers :
       (at[p] = "done" /\ IsSoftBlockResponse(resp[p]))
          => /\ ret[p].err # NoErr
             /\ isRetryable(ret[p].err)
             /\ recorded[p] = 1

----------------------------------------------------------------------------
(* C15 *)

\* The responses the spec classifies as a hard error: a status outside 2xx,
\* or status 200 with a body that is neither JSON nor HTML (and holds no
\* indicator phrase).
IsHardResponse(r) ==
    /\ ~r.doErr
    /\ \/ r.status \notin 200..299
       \/ /\ r.status = 200
          /\ r.json = Invalid
          /\ ~isHTML(r.body)
          /\ ~isCaptchaResponse(r.body)

----------------------------------------------------------------------------
(* C16 *)

\* The fetcher calls of attempt a (0-based) for the identity of the call.
SearchesOf(a) == {n \in SearchesFor(OpKey) : trace[n].a = a}

\* Attempt a was made and every fetcher call of it was soft-blocked.
BlockedAttempt(a) ==
    SearchesOf(a) # {} /\ \A n \in SearchesOf(a) : trace[n].r = ErrCaptcha

\* C16 (soft-block retry): when GoalLink returns from a call in which an
\* attempt before the third was soft-blocked, the call slept at least the
\* backoff of the next attempt right after it and made the next attempt; it
\* returns the soft-block error only if the third attempt was blocked too.
C16_SoftBlockRetry ==
    Returned("GoalLink")
        => /\ \A a \in 0..(maxRetries - 2) :
                 BlockedAttempt(a)
                    => /\ SearchesOf(a + 1) # {}
                       /\ \E x \in Sleeps :
                             /\ trace[x].d >= backoff(a + 1)
                             /\ \A n \in SearchesOf(a) : n < x
                             /\ \A n \in SearchesOf(a + 1) : x < n
           /\ err = ErrCaptcha => BlockedAttempt(maxRetries - 1)

----------------------------------------------------------------------------
(* C17 *)

\* C17 (no concurrent fetcher calls within an operation): at most one call
\* of Fetcher.Search is in flight; a call is issued only when none is in
\* flight, so query2 only after query1 has returned; and GoalLinks calls
\* GoalLink for a goal only after GoalLink has returned for the goal before
\* it.
C17_OneSearchInFlight ==
    /\ [](/\ Cardinality(inflight) <= 1
          /\ inflight # {} => pc \in {"inQuery1", "inQuery2"}
          /\ \A m, n \in Calls :
                m < n => \E x \in DOMAIN trace :
                            /\ m < x
                            /\ x < n
                            /\ trace[x].e = "return"
                            /\ trace[x].key = trace[m].key)
    /\ [][/\ ~(inflight' \subseteq inflight) => inflight = {}
          /\ (pc' = "inQuery2" /\ pc # "inQuery2")
                => \E n \in SearchesFor(GoalLinkKey(cur)) :
                      trace[n].a = attempt /\ trace[n].q = "A"]_vars

\* Query2 is in flight for a goal of the second batch of a GoalLinks call.
C17_Witness ==
    /\ op.name = "GoalLinks"
    /\ j >= BatchSize
    /\ inflight = {[key |-> GoalLinkKey(cur), q |-> "B"]}

----------------------------------------------------------------------------
(* C18 *)

\* The caller is inside a resolution (searchForGoal).
Resolving == pc \in {"search", "inQuery1", "afterQuery1", "inQuery2"}

\* C18 (termination and bounded work): a resolution makes at most 3 attempts
\* of at most 2 fetcher calls each, so at most 6 fetcher calls; it ends, and
\* GoalLink then returns exactly one of: a link with a nil error, nil with a
\* nil error and a "not found" marker in the cache, nil with an error.
C18_BoundedWork ==
    /\ [](\A k \in Keys :
             /\ \A n \in SearchesFor(k) : trace[n].a \in 0..(maxRetries - 1)
             /\ \A a \in 0..(maxRetries - 1) :
                   Cardinality({n \in SearchesFor(k) : trace[n].a = a}) <= 2
             /\ Cardinality(SearchesFor(k)) <= 6)
    /\ []((Returned("GoalLink") /\ Searches # {})
             => \/ IsResolved(link) /\ err = NoErr
                \/ link = NilLink /\ err = NoErr /\ IsNotFound(Get(cache, OpKey))
                \/ link = NilLink /\ err # NoErr)
    /\ (Resolving ~> ~Resolving)

\* GoalLink returned from a resolution that used both queries.
C18_Witness ==
    /\ Returned("GoalLink")
    /\ Cardinality(Searches) = 2
    /\ IsNotFound(Get(cache, OpKey))

----------------------------------------------------------------------------
(* C19 *)

\* The posts the fetcher returned in the last attempt of the call.
Candidates ==
    LET last == {n \in Searches : \A m \in Searches : trace[m].a <= trace[n].a}
    IN UNION {{trace[n].rs[x] : x \in DOMAIN trace[n].rs} : n \in last}

\* The candidate the scorer selects: acceptable, and no candidate is better.
IsSelected(c) ==
    /\ c \in Candidates
    /\ c.Score >= MinScore
    /\ \A o \in Candidates : ~Better(o, c)

\* C19 (outcome and cache): when GoalLink returns a link from a search, the
\* error is nil, the link carries the identity of the goal and the URL, title
\* and post URL of the selected candidate, and the cache holds that link for
\* the identity; when it returns nil with a nil error, the cache holds the
\* "not found" marker for the identity.
C19_OutcomeToCache ==
    (Returned("GoalLink") /\ Searches # {})
        => /\ link # NilLink
                => /\ err = NoErr
                   /\ [MatchID |-> link.MatchID, Minute |-> link.Minute] = OpKey
                   /\ \E c \in Candidates :
                         /\ IsSelected(c)
                         /\ link.URL = c.URL
                         /\ link.Title = c.Title
                         /\ link.PostURL = c.PostURL
                   /\ Get(cache, OpKey) = link
           /\ (link = NilLink /\ err = NoErr)
                => /\ IsNotFound(Get(cache, OpKey))
                   /\ [MatchID |-> Get(cache, OpKey).MatchID,
                       Minute |-> Get(cache, OpKey).Minute] = OpKey

\* GoalLink returned the link of the better of the two acceptable candidates
\* of query2, after a query1 without one.
C19_Witness ==
    /\ Returned("GoalLink")
    /\ Cardinality(Searches) = 2
    /\ {P0, P1, P2} \subseteq Candidates
    /\ link.URL = P1.URL
    /\ Get(cache, OpKey) = link

----------------------------------------------------------------------------
(* C20 *)

\* The posts of the answer at position n of the trace that the scorer accepts.
AcceptedAt(n) == {x \in DOMAIN trace[n].rs : trace[n].rs[x].Score >= MinScore}

\* C20 (query1 short-circuit): when query1 of an attempt succeeds and holds
\* a candidate the scorer accepts, query2 is not issued in that attempt (the
\* attempt makes exactly one fetcher call) and GoalLink returns the link of
\* the best accepted candidate of query1.
C20_ShortCircuit ==
    Returned("GoalLink")
        => \A n \in Searches :
              (trace[n].q = "A" /\ trace[n].r = NoErr /\ AcceptedAt(n) # {})
                 => /\ SearchesOf(trace[n].a) = {n}
                    /\ \E x \in AcceptedAt(n) :
                          /\ \A y \in AcceptedAt(n) : ~Better(trace[n].rs[y], trace[n].rs[x])
                          /\ link.URL = trace[n].rs[x].URL
                          /\ link.Title = trace[n].rs[x].Title
                          /\ link.PostURL = trace[n].rs[x].PostURL

\* GoalLink returned the accepted candidate of query1, which came with a
\* rejected one, after one fetcher call.
C20_Witness ==
    /\ Returned("GoalLink")
    /\ Cardinality(Searches) = 1
    /\ \E n \in Searches : trace[n].q = "A" /\ Len(trace[n].rs) = 2
    /\ link.URL = P2.URL

----------------------------------------------------------------------------
(* C21 *)

\* Both queries of attempt a were answered without error and without a post
\* the scorer accepts.
Inconclusive(a) ==
    /\ \E n \in SearchesOf(a) : trace[n].q = "A"
    /\ \E n \in SearchesOf(a) : trace[n].q = "B"
    /\ \A n \in SearchesOf(a) : trace[n].r = NoErr /\ AcceptedAt(n) = {}

\* C21 (an inconclusive search is final): when GoalLink returns from a call
\* with an attempt whose two queries succeeded without an accepted post, that
\* attempt was the last one, nothing slept after it, GoalLink returns nil with
\* a nil error and the cache holds the "not found" marker for the identity.
C21_InconclusiveIsFinal ==
    Returned("GoalLink")
        => \A a \in 0..(maxRetries - 1) :
              Inconclusive(a)
                 => /\ \A n \in SearchesFor(OpKey) : trace[n].a <= a
                    /\ \A x \in Sleeps : \E n \in SearchesOf(a) : x < n
                    /\ link = NilLink
                    /\ err = NoErr
                    /\ IsNotFound(Get(cache, OpKey))

\* GoalLink returned from one attempt of two successful queries, with a
\* repeated post, and nothing accepted.
C21_Witness ==
    /\ Returned("GoalLink")
    /\ Inconclusive(0)
    /\ Cardinality(Searches) = 2
    /\ IsNotFound(Get(cache, OpKey))

----------------------------------------------------------------------------
(* C23 *)

\* The first position of rs that holds the URL u.
FirstOf(rs, u) == CHOOSE n \in DOMAIN rs : rs[n].URL = u /\ \A m \in 1..(n - 1) : rs[m].URL # u

\* ps is rs without the later posts of a repeated URL.
IsFirstOccurrences(ps, rs) ==
    /\ \A m, n \in DOMAIN ps : m # n => ps[m].URL # ps[n].URL
    /\ {ps[n].URL : n \in DOMAIN ps} = {rs[n].URL : n \in DOMAIN rs}
    /\ \A n \in DOMAIN ps : ps[n] = rs[FirstOf(rs, ps[n].URL)]
    /\ \A m, n \in DOMAIN ps : m < n => FirstOf(rs, ps[m].URL) < FirstOf(rs, ps[n].URL)

\* C23 (pooling): when query2 returns, the list handed to the scorer is the
\* successful results of query1 followed by those of query2 in which every
\* URL is kept once, at its first occurrence, in the order of the first
\* occurrences.
C23_Pooling ==
    [][(pc = "inQuery2" /\ pc' # "inQuery2")
          => LET a == IF results1.err = NoErr THEN results1.results ELSE <<>>
                 ev == NewEvents[1]
                 b == IF ev.r = NoErr THEN ev.rs ELSE <<>>
             IN /\ ev.e = "search"
                /\ ev.q = "B"
                /\ IsFirstOccurrences(pooled(results1, [err |-> ev.r, results |-> ev.rs]),
                                      a \o b)]_vars

\* Query2 is in flight after a query1 that brought the post query2 may bring
\* again with other fields.
C23_Witness ==
    /\ pc = "inQuery2"
    /\ results1 = Ok(<<P0>>)
    /\ Ok(<<P0b, P2>>) \in Search(fetcher, cur, "B")

----------------------------------------------------------------------------
(* C24 *)

\* The first goal of the list with the identity k.
FirstWith(goals, k) ==
    goals[CHOOSE n \in DOMAIN goals :
             GoalLinkKey(goals[n]) = k /\ \A m \in 1..(n - 1) : GoalLinkKey(goals[m]) # k]

\* The positions of the list that hold the first goal of an identity without
\* a cache record.
FirstUnknown(goals) ==
    {n \in DOMAIN goals :
        /\ Get(cache, GoalLinkKey(goals[n])) = NilLink
        /\ \A m \in 1..(n - 1) : GoalLinkKey(goals[m]) # GoalLinkKey(goals[n])}

\* C24 (first occurrence wins in GoalLinks): the goals GoalLinks goes on to
\* resolve are the first goals of the identities without a cache record, in
\* the order of the input list; GoalLink is called with those goals, in that
\* order, whatever the later goals of the same identity hold.
C24_FirstOccurrenceWins ==
    /\ [][(pc = "idle" /\ op'.name = "GoalLinks")
            => /\ Len(uncachedGoals') = Cardinality(FirstUnknown(op'.goals))
               /\ \A n \in DOMAIN uncachedGoals' :
                     \E x \in FirstUnknown(op'.goals) :
                        /\ uncachedGoals'[n] = op'.goals[x]
                        /\ Cardinality({y \in FirstUnknown(op'.goals) : y < x}) = n - 1]_vars
    /\ []((op.name = "GoalLinks" /\ pc \in {"search", "inQuery1", "afterQuery1", "inQuery2"})
            => /\ cur = FirstWith(op.goals, GoalLinkKey(cur))
               /\ cur = uncachedGoals[j + 1]
               /\ Cardinality(Calls) = j + 1)

\* GoalLinks searches with the first goal of an identity that a later goal of
\* the list names again with another scoring side.
C24_Witness ==
    /\ op.name = "GoalLinks"
    /\ pc = "inQuery1"
    /\ \E n \in DOMAIN op.goals :
          /\ n > 1
          /\ GoalLinkKey(op.goals[n]) = GoalLinkKey(op.goals[1])
          /\ op.goals[n] # op.goals[1]
    /\ cur = op.goals[1]

----------------------------------------------------------------------------
(* C26 *)

----------------------------------------------------------------------------
(* C22 *)

\* C22 (search protocol of the fetcher): inside one Search call, the request
\* is sent after exactly one call of rateLimiter.wait made by that Search
\* call has returned, and at most one request is sent, whatever the response
\* was: a caller that has its response has called wait once and sent one
\* request, and a step that sends a request is taken by a caller whose one
\* wait has returned.
C22_SearchProtocol ==
    /\ [](\A p \in Callers :
             /\ requests[p] <= 1
             /\ waits[p] <= 1
             /\ requests[p] = 1 => waits[p] = 1
             /\ at[p] \in {"record", "done"} => requests[p] = 1 /\ waits[p] = 1
             /\ at[p] \in {"lock", "inWait", "stamp", "request"} => requests[p] = 0)
    /\ [][\A p \in Callers :
             requests'[p] > requests[p]
                => /\ at[p] = "request"
                   /\ waits[p] = 1
                   /\ mu # p
                   /\ requests[p] = 0]_vars

\* A Search call got an error response and is about to return, while the
\* other caller is inside wait.
C22_Witness ==
    \E p, q \in Callers :
       /\ at[p] = "done"
       /\ ret[p].err # NoErr
       /\ requests[p] = 1
       /\ waits[p] = 1
       /\ at[q] = "inWait"

----------------------------------------------------------------------------
(* C28 *)

\* The body holds one of the phrases of a bot challenge, in any case.
HasIndicator(body) ==
    \E phrase \in {"prove your humanity", "captcha", "robot", "automated", "blocked",
                   "rate limit", "too many requests"} :
       Contains(ToLower(body), phrase)

\* C28 (the indicator check precedes decoding): a Search call whose response
\* had status 200 and a body with an indicator phrase returns the soft-block
\* error and no results, and has called recordCaptchaError once by the time it
\* returns, also when the body decodes as a listing with posts; a Search call
\* returns results only for a body without an indicator phrase.
C28_IndicatorFirst ==
    \A p \in Callers :
       at[p] \in {"record", "done"}
          => /\ (~resp[p].doErr /\ resp[p].status = 200 /\ HasIndicator(resp[p].body))
                   => /\ ret[p].err = ErrCaptcha
                      /\ ret[p].results = <<>>
                      /\ at[p] = "done" => recorded[p] = 1
             /\ ret[p].results # <<>> => ~HasIndicator(resp[p].body)

\* Search returns the soft block for a body that decodes as a listing with a
\* Media post.
C28_Witness ==
    \E p \in Callers :
       /\ at[p] = "done"
       /\ resp[p].status = 200
       /\ mediaOnly(resp[p].json) # <<>>
       /\ resp[p].json # Invalid
       /\ HasIndicator(resp[p].body)
       /\ ret[p].err = ErrCaptcha
       /\ recorded[p] = 1

----------------------------------------------------------------------------
(* C29 *)

----------------------------------------------------------------------------
(* C27 *)

\* The goroutine is between the cache check of its GoalLink call and the
\* cache write, searching for the identity k.
Searching(g, k) ==
    racers[g].at \in {"inQuery1", "inQuery2"} /\ GoalLinkKey(racers[g].goal) = k

\* C27 (check-then-resolve is atomic): of the GoalLink calls that goroutines
\* make on one client, at most one at a time searches for an identity, an
\* identity is searched for once, and its cache record is written once.
C27_SingleFlight ==
    \A k \in Keys :
       /\ \A g, h \in Goroutines : (Searching(g, k) /\ Searching(h, k)) => g = h
       /\ searched[k] <= 1
       /\ written[k] <= 1

----------------------------------------------------------------------------
(* C25 *)

\* The days of the returned call whose fetch succeeded, in the order fetched.
GoodDays == SelectSeq(answers, LAMBDA a : a.err = NoErr)

\* The sequences of a sequence, one after the other.
RECURSIVE Concat(_)
Concat(ss) == IF ss = <<>> THEN <<>> ELSE Concat(SubSeq(ss, 1, Len(ss) - 1)) \o ss[Len(ss)]

\* The matches with the status that the given days brought, day after day;
\* of today only, if so asked.
MatchesOf(days, status, todayOnly) ==
    Concat([n \in DOMAIN days |->
               IF todayOnly /\ days[n].day # 0 THEN <<>>
               ELSE SelectSeq(days[n].matches, LAMBDA x : x.Status = status)])

\* C25 (partial failure in FetchStatsData): a returned call has fetched all
\* five days, today with the fixtures and results tabs and the four days
\* before with the results tab, whatever failed; it returns an error, and no
\* data, iff every fetch failed; otherwise the finished matches are those of
\* the days whose fetch succeeded, in order, today's finished matches those of
\* today's fetch, and the upcoming matches the not-started matches of today's
\* fetch only.
C25_PartialFailure ==
    statsRet.returned
       => /\ Len(answers) = StatsDataDays
          /\ \A n \in DOMAIN answers :
                /\ answers[n].day = n - 1
                /\ answers[n].tabs = IF n = 1 THEN <<"fixtures", "results">> ELSE <<"results">>
          /\ statsRet.err # NoErr <=> \A n \in DOMAIN answers : answers[n].err # NoErr
          /\ statsRet.err # NoErr <=> statsRet.data.nil
          /\ statsRet.err = NoErr
                => /\ statsRet.data.AllFinished = MatchesOf(GoodDays, "finished", FALSE)
                   /\ statsRet.data.TodayFinished = MatchesOf(GoodDays, "finished", TRUE)
                   /\ statsRet.data.TodayUpcoming = MatchesOf(GoodDays, "not_started", TRUE)

\* FetchStatsData returned data although today's fetch and another one
\* failed, after a past day that brought a match that has not started.
C25_Witness ==
    /\ statsRet.returned
    /\ statsRet.err = NoErr
    /\ answers[1].err # NoErr
    /\ answers[3].err # NoErr /\ answers[3].matches # <<>>
    /\ \E x \in DOMAIN answers[2].matches : answers[2].matches[x].Status = "not_started"
    /\ answers[2].err = NoErr
    /\ statsRet.data.AllFinished # <<>>
    /\ statsRet.data.TodayUpcoming = <<>>

----------------------------------------------------------------------------
(* C30 *)

\* The ticks and messages under way that come from the generator g.
UnderWay(g) == ticks[g] + Cardinality({n \in DOMAIN msgs : msgs[n].gen = g})

\* C30 (live updates belong to the current match): an update is appended to
\* liveUpdates only while loading is true; every update in liveUpdates comes
\* from updateGen, the generator made for the match selected now, so that a
\* tick scheduled for a match selected before adds nothing to the list; and
\* at most one tick or message of the current generator is under way.
C30_UpdatesOfCurrentMatch ==
    /\ [][Len(liveUpdates') > Len(liveUpdates) => loading]_vars
    /\ [](\A n \in DOMAIN liveUpdates :
             /\ liveUpdates[n].gen = updateGen
             /\ liveUpdates[n].match = matchDetails)
    /\ [](updateGen # 0 => UnderWay(updateGen) <= 1)

====
